---- MODULE Spec2Model ----
(***************************************************************************)
(* Model of the Buttplug client event loop and of the reply future it      *)
(* uses (buttplug/src/client/internal.rs).                                 *)
(*                                                                         *)
(* Five specifications share the variables:                                *)
(*   Spec        the event loop: wait_for_connector, then run, fed by the  *)
(*               client, the connector and the device handles;             *)
(*   FairSpec    Spec, with the connector's connect() and disconnect()     *)
(*               completing;                                               *)
(*   FutureSpec  one ButtplugClientFutureState under arbitrary set_reply   *)
(*               and poll calls from two tasks;                            *)
(*   QueueSpec   the bounded device-command channel with senders that      *)
(*               suspend while it is full;                                 *)
(*   RaceSpec    run with the left-biased race of async-std and a          *)
(*               connector whose stream is always ready.                   *)
(***************************************************************************)
EXTENDS Naturals, Sequences, FiniteSets

(* ------------------------------ bounds -------------------------------- *)
\* device indices are 1..MaxIndex (u32 in the code)
MaxIndex == 2
\* longest DeviceList.devices vector a message carries
MaxListLen == 2
\* events of the environment over one run: items the three sources (client,
\* connector, device handles) produce, and the closing of a channel
MaxItems == 4
\* capacity of the device-command channel (channel(256) in the code, scaled)
DeviceQueueCap == 2
\* empty DeviceList notifications of a connector that repeats them, waiting at one time
MaxRepeating == 1
\* sends suspended on the full device-command channel at one time
MaxWaiting == 1
\* set_reply calls made on the stand-alone future of FutureSpec
MaxSetCalls == 3
\* polls of the stand-alone future that no wake-up asked for
MaxPolls == 3

(* --------------------------- value domains ---------------------------- *)
Indices == 1..MaxIndex
Names == {"X", "Y"}
Outcomes == {"Ok", "Err"}

\* Option<T>: None, Some(v)
None == <<>>
Some(v) == <<v>>
Unwrap(o) == o[1]

\* DeviceMessageInfo { device_index, device_name, .. }
DeviceMessageInfos == [device_index : Indices, device_name : Names]

RECURSIVE SeqsUpTo(_, _)
SeqsUpTo(S, n) ==
  IF n = 0 THEN {<<>>}
  ELSE LET shorter == SeqsUpTo(S, n - 1)
       IN  shorter \cup {Append(s, x) : s \in {t \in shorter : Len(t) = n - 1}, x \in S}

\* DeviceList { devices: Vec<DeviceMessageInfo> }: the entries of the lists drawn
\* carry the name "X", a DeviceAdded message any name
ListEntries == {d \in DeviceMessageInfos : d.device_name = "X"}
DeviceLists == SeqsUpTo(ListEntries, MaxListLen)

\* ButtplugMessageUnion values the connector's notification stream carries
ConnectorMessages ==
       [type : {"DeviceAdded"}, device_index : Indices, device_name : Names]
  \cup [type : {"DeviceList"}, devices : DeviceLists]
  \cup [type : {"DeviceRemoved"}, device_index : Indices]
  \cup [type : {"ScanningFinished"}]

\* ButtplugMessageUnion values sent out through the connector
StopAllDevices == [type |-> "StopAllDevices"]
SingleMotorVibrateCmd(i) == [type |-> "SingleMotorVibrateCmd", id |-> 1, device_index |-> i]

\* future ids: one Arc<Mutex<ButtplugClientFutureState>> per submitted command
FutIds == 1..MaxItems
\* the future FutureSpec exercises
TheFut == 1

\* ButtplugClientMessage values (the future state is attached when the loop takes it)
ClientMessageKinds ==
       [type : {"Connect"}]
  \cup [type : {"Disconnect"}]
  \cup [type : {"RequestDeviceList"}]
  \cup [type : {"HandleDeviceList"}, devices : DeviceLists]
  \cup [type : {"Message"}, msg : {StopAllDevices}]

(* --------------------- partial maps (HashMap<u32, V>) ------------------ *)
EmptyMap == [k \in {} |-> 0]
Insert(m, k, v) == [x \in (DOMAIN m) \cup {k} |-> IF x = k THEN v ELSE m[x]]
Remove(m, k) == [x \in (DOMAIN m) \ {k} |-> m[x]]
Get(m, k) == IF k \in DOMAIN m THEN Some(m[k]) ELSE None

(* ----------------------- ButtplugClientFutureState --------------------- *)
\* ButtplugClientFutureState::default()
DefaultFutureState == [reply_msg |-> None, waker |-> None]

\* a faulty set_reply: stores the reply and leaves the registered waker unfired
set_reply_silent(fs, reply) ==
  IF fs.reply_msg # None
  THEN [panicked |-> TRUE, state |-> fs, woke |-> None]
  ELSE [panicked |-> FALSE, state |-> [fs EXCEPT !.reply_msg = Some(reply)], woke |-> None]

\* ButtplugClientFutureState::set_reply: panics when a reply is stored, else
\* stores the reply and takes and fires the waker.
set_reply(fs, reply) ==
  IF fs.reply_msg # None
  THEN [panicked |-> TRUE, state |-> fs, woke |-> None]
  ELSE [panicked |-> FALSE,
        state |-> [reply_msg |-> Some(reply), waker |-> None],
        woke |-> fs.waker]

Pending == [poll |-> "Pending"]
Ready(v) == [poll |-> "Ready", value |-> v]

\* a faulty poll: returns a stored reply without taking it out of the slot
poll_peek(fs, cx_waker) ==
  IF fs.reply_msg # None
  THEN [ret |-> Ready(Unwrap(fs.reply_msg)), state |-> fs]
  ELSE [ret |-> Pending, state |-> [fs EXCEPT !.waker = Some(cx_waker)]]

\* ButtplugClientFuture::poll, under the state's lock: takes a stored reply,
\* else stores the context's waker.
poll(fs, cx_waker) ==
  IF fs.reply_msg # None
  THEN [ret |-> Ready(Unwrap(fs.reply_msg)), state |-> [fs EXCEPT !.reply_msg = None]]
  ELSE [ret |-> Pending, state |-> [fs EXCEPT !.waker = Some(cx_waker)]]


\* Result<(), ButtplugClientConnectorError>, the reply type of Connect and Disconnect
OkReply == [kind |-> "Ok"]
ErrReply(m) == [kind |-> "Err", message |-> m]
\* replies the callers of FutureSpec store
Vals == {OkReply, ErrReply("connector")}

(* ------------------------------ state ---------------------------------- *)
VARIABLES
  pc,                       \* where the loop task is: "wait_for_connector", "connect",
                            \* "run", "disconnect", "exited"
  result,                   \* what client_event_loop ended with: "none", "Ok", "Err", "panic"
  exit_cause,               \* why the loop left run or wait_for_connector
  client_pending,           \* commands waiting in client_receiver
  client_closed,            \* every client sender is dropped
  connector_pending,        \* notifications waiting in connector_receiver
  connector_closed,         \* the connector dropped its event sender
  connector_repeating,      \* empty DeviceList notifications waiting in connector_receiver,
                            \* which a connector may go on sending without end
  device_message_receiver,  \* the device-command channel: <<message, future id>> pairs
  device_send_waiting,      \* the <<message, future id>> pairs of the sends suspended on it
  produced,                 \* events of the environment so far
  devices,                  \* HashMap<u32, DeviceMessageInfo>
  device_event_senders,     \* HashMap<u32, Vec<Sender<ButtplugClientDeviceEvent>>>
  chan_count,               \* per index, the event channels created so far
  futures,                  \* future id -> ButtplugClientFutureState
  lock,                     \* future id -> "unlocked", "loop" (held by the loop), "poisoned"
  awaiter,                  \* future id -> the task awaiting it: "running", "suspended",
                            \* "woken", "panicked"
  log,                      \* future id -> the set_reply and poll calls made on it, in order
  unasked,                  \* polls made without a wake-up
  next_fut,                 \* next unused future id
  taken,                    \* the item the loop took last, None before the first
  emitted,                  \* the events the last loop step sent on event_sender
  device_events_sent,       \* every <<channel, ButtplugClientDeviceEvent>> sent so far on a
                            \* sender of device_event_senders
  called,                   \* the connector operations the last loop step invoked
  n_calls,                  \* connector operation -> times invoked so far
  live                      \* indices whose latest registry step is a registration

loop_vars == <<pc, result, exit_cause, client_pending, client_closed,
               connector_pending, connector_closed, connector_repeating,
               device_message_receiver, device_send_waiting, produced, devices, device_event_senders,
               chan_count, next_fut, taken, emitted, device_events_sent, called, n_calls,
               live>>
future_vars == <<futures, lock, awaiter, log, unasked>>
vars == <<loop_vars, future_vars>>

ConnectorOps == {"connect", "disconnect", "send"}

Init ==
  /\ pc = "wait_for_connector"
  /\ result = "none"
  /\ exit_cause = "none"
  /\ client_pending = 0
  /\ client_closed = FALSE
  /\ connector_pending = 0
  /\ connector_closed = FALSE
  /\ connector_repeating = 0
  /\ device_message_receiver = <<>>
  /\ device_send_waiting = {}
  /\ produced = 0
  /\ devices = EmptyMap
  /\ device_event_senders = EmptyMap
  /\ chan_count = [i \in Indices |-> 0]
  /\ futures = [f \in FutIds |-> DefaultFutureState]
  /\ lock = [f \in FutIds |-> "unlocked"]
  /\ awaiter = [f \in FutIds |-> "running"]
  /\ log = [f \in FutIds |-> <<>>]
  /\ unasked = 0
  /\ next_fut = 1
  /\ taken = None
  /\ emitted = <<>>
  /\ device_events_sent = <<>>
  /\ called = <<>>
  /\ n_calls = [op \in ConnectorOps |-> 0]
  /\ live = {}

(* ------------------- calls on one future state ------------------------- *)
SetEntry(reply, r) == [op |-> "set_reply", reply |-> reply, panicked |-> r.panicked]
PollEntry(ret) == [op |-> "poll", ret |-> ret]
PoisonedPoll == [poll |-> "PoisonError"]

\* The task the fired waker belongs to is scheduled again.
Wake(f, woke) ==
  IF woke # None /\ awaiter[f] = "suspended"
  THEN [awaiter EXCEPT ![f] = "woken"]
  ELSE awaiter

\* What set_reply(reply), called through a MutexGuard on future f, leaves behind:
\* a panic unwinds through the guard and poisons the mutex.
AfterSetReply(f, reply, r) ==
  /\ futures' = [futures EXCEPT ![f] = r.state]
  /\ lock' = [lock EXCEPT ![f] = IF r.panicked THEN "poisoned" ELSE "unlocked"]
  /\ awaiter' = Wake(f, r.woke)
  /\ log' = [log EXCEPT ![f] = Append(@, SetEntry(reply, r))]

\* Some task other than the awaiter runs state.lock().unwrap().set_reply(reply).
SetReplyCall(f, reply) ==
  /\ lock[f] = "unlocked"
  /\ Len(SelectSeq(log[f], LAMBDA e : e.op = "set_reply")) < MaxSetCalls
  /\ AfterSetReply(f, reply, set_reply(futures[f], reply))
  /\ UNCHANGED <<unasked, loop_vars>>

\* The awaiting task polls future f: after a wake-up, or unasked (a first poll,
\* or a re-poll by a combinator).  lock().unwrap() panics on a poisoned mutex.
Poll(f) ==
  /\ awaiter[f] # "panicked"
  /\ lock[f] # "loop"
  /\ awaiter[f] = "woken" \/ unasked < MaxPolls
  /\ unasked' = IF awaiter[f] = "woken" THEN unasked ELSE unasked + 1
  /\ IF lock[f] = "poisoned"
     THEN /\ awaiter' = [awaiter EXCEPT ![f] = "panicked"]
          /\ log' = [log EXCEPT ![f] = Append(@, PollEntry(PoisonedPoll))]
          /\ UNCHANGED futures
     ELSE LET p == poll(futures[f], "awaiter")
          IN  /\ futures' = [futures EXCEPT ![f] = p.state]
              /\ awaiter' = [awaiter EXCEPT ![f] =
                               IF p.ret = Pending THEN "suspended" ELSE "running"]
              /\ log' = [log EXCEPT ![f] = Append(@, PollEntry(p.ret))]
  /\ UNCHANGED <<lock, loop_vars>>

FutureSetReply == \E reply \in Vals : SetReplyCall(TheFut, reply)
FuturePoll == Poll(TheFut)
FutureNext == FutureSetReply \/ FuturePoll

\* A woken task is polled again by its executor.
FutureSpec == Init /\ [][FutureNext]_vars /\ WF_vars(awaiter[TheFut] = "woken" /\ FuturePoll)

(* --------------------------- device registry --------------------------- *)
\* the part of ButtplugClientEventLoop a handler works on, with the events it sends
\* on event_sender (events) and on the per-device senders (device_events)
Reg == [devices |-> devices, device_event_senders |-> device_event_senders,
        chan_count |-> chan_count, events |-> <<>>, device_events |-> device_events_sent]

\* ButtplugClientEvent values
DeviceAddedEvent(device) == [event |-> "DeviceAdded", device |-> device]
DeviceRemovedEvent(info) == [event |-> "DeviceRemoved", info |-> info]

\* DeviceMessageInfo::from(&DeviceAdded)
DeviceMessageInfoFrom(dev) ==
  [device_index |-> dev.device_index, device_name |-> dev.device_name]

\* a faulty create_client_device: the new sender replaces the index's vector
create_client_device_replacing(r, info) ==
  LET i == info.device_index
      chan == <<i, r.chan_count[i] + 1>>
  IN  [reg |-> [r EXCEPT !.device_event_senders = Insert(@, i, <<chan>>),
                         !.chan_count = [@ EXCEPT ![i] = @ + 1]],
       device |-> [info |-> info, event_receiver |-> chan]]

\* create_client_device: a fresh event channel, its sender pushed on the index's
\* vector (created on first use), its receiver bound into the new handle.
create_client_device(r, info) ==
  LET i == info.device_index
      chan == <<i, r.chan_count[i] + 1>>
      old == IF i \in DOMAIN r.device_event_senders THEN r.device_event_senders[i] ELSE <<>>
  IN  [reg |-> [r EXCEPT !.device_event_senders = Insert(@, i, Append(old, chan)),
                         !.chan_count = [@ EXCEPT ![i] = @ + 1]],
       device |-> [info |-> info, event_receiver |-> chan]]

\* the DeviceAdded arm of parse_connector_message
AddedDevice(r, dev) ==
  LET info == DeviceMessageInfoFrom(dev)
      c == create_client_device(r, info)
  IN  [c.reg EXCEPT !.devices = Insert(@, dev.device_index, info),
                    !.events = Append(@, DeviceAddedEvent(c.device))]

\* a faulty DeviceList arm: an entry whose index is registered already is skipped
RECURSIVE ListedNewDevices(_, _)
ListedNewDevices(r, devs) ==
  IF devs = <<>> THEN r
  ELSE LET d == Head(devs)
           c == create_client_device(r, d)
       IN  IF d.device_index \in DOMAIN r.devices
           THEN ListedNewDevices(r, Tail(devs))
           ELSE ListedNewDevices([c.reg EXCEPT !.devices = Insert(@, d.device_index, d),
                                               !.events = Append(@, DeviceAddedEvent(c.device))],
                                 Tail(devs))

\* the DeviceList arm of parse_connector_message: the for loop over dev.devices
RECURSIVE ListedDevices(_, _)
ListedDevices(r, devs) ==
  IF devs = <<>> THEN r
  ELSE LET d == Head(devs)
           c == create_client_device(r, d)
       IN  ListedDevices([c.reg EXCEPT !.devices = Insert(@, d.device_index, d),
                                       !.events = Append(@, DeviceAddedEvent(c.device))],
                         Tail(devs))

\* a faulty DeviceRemoved arm: the index's senders are dropped, its info is kept
RemovedSendersOnly(r, dev) ==
  LET info == Get(r.devices, dev.device_index)
      r1 == [r EXCEPT !.device_event_senders = Remove(@, dev.device_index)]
  IN  IF info = None
      THEN [reg |-> r1, panicked |-> TRUE]
      ELSE [reg |-> [r1 EXCEPT !.events = Append(@, DeviceRemovedEvent(Unwrap(info)))],
            panicked |-> FALSE]

\* a faulty DeviceRemoved arm: the index's info is dropped, its senders are kept
RemovedInfoOnly(r, dev) ==
  LET info == Get(r.devices, dev.device_index)
      r1 == [r EXCEPT !.devices = Remove(@, dev.device_index)]
  IN  IF info = None
      THEN [reg |-> r1, panicked |-> TRUE]
      ELSE [reg |-> [r1 EXCEPT !.events = Append(@, DeviceRemovedEvent(Unwrap(info)))],
            panicked |-> FALSE]

\* a faulty DeviceRemoved arm: an index that is not registered is passed over
RemovedIfKnown(r, dev) ==
  LET info == Get(r.devices, dev.device_index)
      r1 == [r EXCEPT !.devices = Remove(@, dev.device_index),
                      !.device_event_senders = Remove(@, dev.device_index)]
  IN  IF info = None
      THEN [reg |-> r1, panicked |-> FALSE]
      ELSE [reg |-> [r1 EXCEPT !.events = Append(@, DeviceRemovedEvent(Unwrap(info)))],
            panicked |-> FALSE]

\* the DeviceRemoved arm of parse_connector_message: both removes, then
\* info.unwrap() panics before the send when the index was not registered
RemovedDevice(r, dev) ==
  LET info == Get(r.devices, dev.device_index)
      r1 == [r EXCEPT !.devices = Remove(@, dev.device_index),
                      !.device_event_senders = Remove(@, dev.device_index)]
  IN  IF info = None
      THEN [reg |-> r1, panicked |-> TRUE]
      ELSE [reg |-> [r1 EXCEPT !.events = Append(@, DeviceRemovedEvent(Unwrap(info)))],
            panicked |-> FALSE]

\* a faulty parse_connector_message: a message of another kind is skipped
parse_connector_message_lenient(r, msg) ==
  CASE msg.type = "DeviceAdded" -> [reg |-> AddedDevice(r, msg), panicked |-> FALSE]
    [] msg.type = "DeviceList" -> [reg |-> ListedDevices(r, msg.devices), panicked |-> FALSE]
    [] msg.type = "DeviceRemoved" -> RemovedDevice(r, msg)
    [] OTHER -> [reg |-> r, panicked |-> FALSE]

\* parse_connector_message
parse_connector_message(r, msg) ==
  CASE msg.type = "DeviceAdded" -> [reg |-> AddedDevice(r, msg), panicked |-> FALSE]
    [] msg.type = "DeviceList" -> [reg |-> ListedDevices(r, msg.devices), panicked |-> FALSE]
    [] msg.type = "DeviceRemoved" -> RemovedDevice(r, msg)
    [] OTHER -> [reg |-> r, panicked |-> TRUE]

\* a faulty HandleDeviceList arm: handles are minted and announced, the infos are
\* not stored
RECURSIVE HandledDeviceListNoInsert(_, _)
HandledDeviceListNoInsert(r, devs) ==
  IF devs = <<>> THEN r
  ELSE LET c == create_client_device(r, Head(devs))
       IN  HandledDeviceListNoInsert([c.reg EXCEPT !.events = Append(@, DeviceAddedEvent(c.device))],
                                     Tail(devs))

\* the HandleDeviceList arm of parse_client_message: the for loop over device_list.devices
RECURSIVE HandledDeviceList(_, _)
HandledDeviceList(r, devs) ==
  IF devs = <<>> THEN r
  ELSE LET d == Head(devs)
           c == create_client_device(r, d)
       IN  HandledDeviceList([c.reg EXCEPT !.devices = Insert(@, d.device_index, d),
                                           !.events = Append(@, DeviceAddedEvent(c.device))],
                             Tail(devs))

\* the RequestDeviceList arm of parse_client_message: one handle per value of a
\* clone of devices, in the map's iteration order (order), pushed on r
RECURSIVE RequestedDevices(_, _, _)
RequestedDevices(r, snapshot, order) ==
  IF order = <<>> THEN [reg |-> r, list |-> <<>>]
  ELSE LET c == create_client_device(r, snapshot[Head(order)])
           rest == RequestedDevices(c.reg, snapshot, Tail(order))
       IN  [reg |-> rest.reg, list |-> <<c.device>> \o rest.list]

\* the orders a HashMap with key set S may iterate in
Orders(S) == {o \in [1..Cardinality(S) -> S] : \A i, j \in 1..Cardinality(S) : o[i] = o[j] => i = j}

DevicesReply(list) == [kind |-> "Devices", devices |-> list]

\* history: the indices registered and not removed since, step by step
IndicesOf(devs) == {devs[k].device_index : k \in 1..Len(devs)}
LiveAfter(L, msg) ==
  CASE msg.type = "DeviceAdded" -> L \cup {msg.device_index}
    [] msg.type \in {"DeviceList", "HandleDeviceList"} -> L \cup IndicesOf(msg.devices)
    [] msg.type = "DeviceRemoved" -> L \ {msg.device_index}
    [] OTHER -> L

(* ---------------------------- environment ------------------------------ *)
\* wait_for_connector returned Ok(ButtplugClientEventLoop) and run has not ended
SessionCreated == pc \in {"run", "disconnect"}

\* A client sends one more ButtplugClientMessage.
ClientSubmit ==
  /\ pc # "exited"
  /\ ~client_closed
  /\ produced < MaxItems
  /\ produced' = produced + 1
  /\ client_pending' = client_pending + 1
  /\ UNCHANGED <<pc, result, exit_cause, client_closed, connector_pending, connector_closed,
                 connector_repeating, device_message_receiver, device_send_waiting, devices,
                 device_event_senders, chan_count, futures, lock, awaiter, log, unasked,
                 next_fut, taken, emitted, device_events_sent, called, n_calls, live>>

\* Every ButtplugClient (every sender of the command channel) is dropped.
ClientDrop ==
  /\ pc # "exited"
  /\ ~client_closed
  /\ produced < MaxItems
  /\ produced' = produced + 1
  /\ client_closed' = TRUE
  /\ UNCHANGED <<pc, result, exit_cause, client_pending, connector_pending,
                 connector_closed, connector_repeating, device_message_receiver,
                 device_send_waiting, devices, device_event_senders, chan_count, futures,
                 lock, awaiter, log, unasked, next_fut, taken, emitted, device_events_sent,
                 called, n_calls, live>>

\* The connected connector puts one more message on its event stream.
ConnectorNotify ==
  /\ SessionCreated
  /\ ~connector_closed
  /\ produced < MaxItems
  /\ produced' = produced + 1
  /\ connector_pending' = connector_pending + 1
  /\ UNCHANGED <<pc, result, exit_cause, client_pending, client_closed, connector_closed,
                 connector_repeating, device_message_receiver, device_send_waiting, devices,
                 device_event_senders, chan_count, futures, lock, awaiter, log, unasked,
                 next_fut, taken, emitted, device_events_sent, called, n_calls, live>>

\* The connected connector puts one more empty DeviceList on its event stream, and
\* can do so again and again.
ConnectorRepeat ==
  /\ SessionCreated
  /\ ~connector_closed
  /\ connector_repeating < MaxRepeating
  /\ connector_repeating' = connector_repeating + 1
  /\ UNCHANGED <<pc, result, exit_cause, client_pending, client_closed, connector_pending,
                 connector_closed, device_message_receiver, device_send_waiting, produced,
                 devices, device_event_senders, chan_count, futures, lock, awaiter, log,
                 unasked, next_fut, taken, emitted, device_events_sent, called, n_calls,
                 live>>

\* The connector drops its event sender (the server went away).
ConnectorClose ==
  /\ SessionCreated
  /\ ~connector_closed
  /\ produced < MaxItems
  /\ produced' = produced + 1
  /\ connector_closed' = TRUE
  /\ UNCHANGED <<pc, result, exit_cause, client_pending, client_closed, connector_pending,
                 connector_repeating, device_message_receiver, device_send_waiting, devices,
                 device_event_senders, chan_count, futures, lock, awaiter, log, unasked,
                 next_fut, taken, emitted, device_events_sent, called, n_calls, live>>

\* A ButtplugClientDevice for index i sends a command with a new future on its
\* clone of device_message_sender; send suspends while the channel is full.
DeviceSubmit ==
  \E i \in Indices :
    /\ SessionCreated
    /\ chan_count[i] > 0
    /\ produced < MaxItems
    /\ next_fut \in FutIds
    /\ Len(device_message_receiver) < DeviceQueueCap
    /\ device_message_receiver' =
         Append(device_message_receiver, <<SingleMotorVibrateCmd(i), next_fut>>)
    /\ produced' = produced + 1
    /\ next_fut' = next_fut + 1
    /\ UNCHANGED <<pc, result, exit_cause, client_pending, client_closed, connector_pending,
                   connector_closed, connector_repeating, device_send_waiting, devices,
                   device_event_senders, chan_count, futures, lock, awaiter, log, unasked,
                   taken, emitted, device_events_sent, called, n_calls, live>>

\* The same send when the channel is full: the sending task suspends in send().await,
\* its pair kept (suspended sends are counted by MaxWaiting, not as produced items).
DeviceSendSuspend ==
  \E i \in Indices :
    /\ SessionCreated
    /\ chan_count[i] > 0
    /\ next_fut \in FutIds
    /\ Len(device_message_receiver) = DeviceQueueCap
    /\ Cardinality(device_send_waiting) < MaxWaiting
    /\ device_send_waiting' = device_send_waiting \cup {<<SingleMotorVibrateCmd(i), next_fut>>}
    /\ next_fut' = next_fut + 1
    /\ UNCHANGED <<pc, result, exit_cause, client_pending, client_closed, connector_pending,
                   connector_closed, connector_repeating, device_message_receiver, produced,
                   devices, device_event_senders, chan_count, futures, lock, awaiter, log,
                   unasked, taken, emitted, device_events_sent, called, n_calls, live>>

\* A suspended send finds room in the channel and completes.
DeviceSendResume ==
  \E msg_fut \in device_send_waiting :
    /\ SessionCreated
    /\ Len(device_message_receiver) < DeviceQueueCap
    /\ device_message_receiver' = Append(device_message_receiver, msg_fut)
    /\ device_send_waiting' = device_send_waiting \ {msg_fut}
    /\ UNCHANGED <<pc, result, exit_cause, client_pending, client_closed, connector_pending,
                   connector_closed, connector_repeating, produced, devices,
                   device_event_senders, chan_count, futures, lock, awaiter, log, unasked,
                   next_fut, taken, emitted, device_events_sent, called, n_calls, live>>

(* ------------------------------ the loop ------------------------------- *)
Took(source, msg, f) == Some([source |-> source, msg |-> msg, fut |-> f])
NoFut == 0
Call(op) == [op |-> op]
Returned(op, outcome) == [op |-> op, returned |-> outcome]
\* a faulty send: the payload goes out without the command's future state
SendCallNoState(msg, f) == [op |-> "send", msg |-> msg, state |-> NoFut]
SendCall(msg, f) == [op |-> "send", msg |-> msg, state |-> f]
Counted(op) == [n_calls EXCEPT ![op] = @ + 1]

\* state.lock().unwrap() then set_reply(reply) on future f, as the loop does it:
\* whether it panics, and what it leaves behind
LoopSetReplyPanics(f, reply) == lock[f] = "poisoned" \/ set_reply(futures[f], reply).panicked
LoopSetReply(f, reply) ==
  IF lock[f] = "poisoned"
  THEN UNCHANGED <<futures, lock, awaiter, log>>
  ELSE AfterSetReply(f, reply, set_reply(futures[f], reply))

\* the loop task ends: client_event_loop returns res, or unwinds ("panic")
Exit(res, cause) == pc' = "exited" /\ result' = res /\ exit_cause' = cause

\* wait_for_connector, client_receiver.next() gives None
WaitClientDropped ==
  /\ pc = "wait_for_connector"
  /\ client_pending = 0 /\ client_closed
  /\ Exit("Err", "client_dropped")
  /\ taken' = None /\ emitted' = <<>> /\ called' = <<>>
  /\ UNCHANGED <<client_pending, client_closed, connector_pending, connector_closed,
                 connector_repeating, device_message_receiver, device_send_waiting,
                 produced, devices, device_event_senders, chan_count, futures, lock,
                 awaiter, log, unasked, next_fut, device_events_sent, n_calls, live>>

\* wait_for_connector takes Connect(connector, state) and awaits connector.connect()
WaitConnect ==
  /\ pc = "wait_for_connector"
  /\ client_pending > 0
  /\ client_pending' = client_pending - 1
  /\ taken' = Took("client", [type |-> "Connect"], next_fut)
  /\ next_fut' = next_fut + 1
  /\ pc' = "connect"
  /\ called' = <<Call("connect")>>
  /\ n_calls' = Counted("connect")
  /\ emitted' = <<>>
  /\ UNCHANGED <<result, exit_cause, client_closed, connector_pending, connector_closed,
                 connector_repeating, device_message_receiver, device_send_waiting,
                 produced, devices, device_event_senders, chan_count, futures, lock,
                 awaiter, log, unasked, device_events_sent, live>>

\* a faulty catch-all arm: the message is dropped and the loop waits for the next
NotConnectDropped == UNCHANGED <<pc, result, exit_cause>>

\* the catch-all arm of wait_for_connector: Err(..) is returned, and client_event_loop
\* returns it through the ? operator
NotConnectFirst == Exit("Err", "not_connect")

\* wait_for_connector takes any other message first
WaitNotConnect ==
  /\ pc = "wait_for_connector"
  /\ client_pending > 0
  /\ \E msg \in ClientMessageKinds :
       /\ msg.type # "Connect"
       /\ taken' = Took("client", msg, IF msg.type = "HandleDeviceList" THEN NoFut ELSE next_fut)
       /\ next_fut' = IF msg.type = "HandleDeviceList" THEN next_fut ELSE next_fut + 1
  /\ client_pending' = client_pending - 1
  /\ NotConnectFirst
  /\ emitted' = <<>> /\ called' = <<>>
  /\ UNCHANGED <<client_closed, connector_pending, connector_closed, connector_repeating,
                 device_message_receiver, device_send_waiting, produced, devices,
                 device_event_senders, chan_count, futures, lock, awaiter, log, unasked,
                 device_events_sent, n_calls, live>>

\* a faulty pair of arms: the two replies are swapped
ConnectReplySwapped(outcome) ==
  IF outcome = "Ok" THEN ErrReply("Cannot connect to server") ELSE OkReply

\* the replies wait_for_connector stores for the two outcomes of connector.connect()
ConnectReply(outcome) ==
  IF outcome = "Ok" THEN OkReply ELSE ErrReply("Cannot connect to server")

\* a faulty Err arm: the loop struct is built and run starts after a failed connect
ConnectReturnAlwaysOk(outcome, panics) ==
  IF panics THEN Exit("panic", "panic")
  ELSE pc' = "run" /\ UNCHANGED <<result, exit_cause>>

\* what wait_for_connector returns after connector.connect(): Err(..) on Err, which
\* ends client_event_loop, Ok(ButtplugClientEventLoop) on Ok, which run() follows
ConnectReturn(outcome, panics) ==
  IF panics THEN Exit("panic", "panic")
  ELSE IF outcome = "Err" THEN Exit("Err", "connect_failed")
  ELSE pc' = "run" /\ UNCHANGED <<result, exit_cause>>

\* connector.connect() returns: the reply is stored; on Ok the loop struct is built
\* (empty maps, channel(256) for device commands) and run starts
ConnectDone ==
  /\ pc = "connect"
  /\ \E outcome \in Outcomes :
       LET f == Unwrap(taken).fut
           reply == ConnectReply(outcome)
       IN  /\ lock[f] # "loop"
           /\ LoopSetReply(f, reply)
           /\ called' = <<Returned("connect", outcome)>>
           /\ ConnectReturn(outcome, LoopSetReplyPanics(f, reply))
  /\ devices' = EmptyMap
  /\ device_event_senders' = EmptyMap
  /\ device_message_receiver' = <<>>
  /\ emitted' = <<>>
  /\ UNCHANGED <<client_pending, client_closed, connector_pending, connector_closed,
                 connector_repeating, device_send_waiting, produced, chan_count, unasked,
                 next_fut, taken, device_events_sent, n_calls, live>>

\* what a handler leaves in the loop's maps
SetReg(r) ==
  /\ devices' = r.devices
  /\ device_event_senders' = r.device_event_senders
  /\ chan_count' = r.chan_count
  /\ emitted' = r.events
  /\ device_events_sent' = r.device_events

\* run: the connector stream wins the race with a message
LoopConnectorMessage ==
  /\ pc = "run"
  /\ connector_pending > 0
  /\ connector_pending' = connector_pending - 1
  /\ \E msg \in ConnectorMessages :
       LET r == parse_connector_message(Reg, msg)
       IN  /\ taken' = Took("connector", msg, NoFut)
           /\ SetReg(r.reg)
           /\ live' = LiveAfter(live, msg)
           /\ IF r.panicked THEN Exit("panic", "panic")
              ELSE UNCHANGED <<pc, result, exit_cause>>
  /\ called' = <<>>
  /\ UNCHANGED <<client_pending, client_closed, connector_closed, connector_repeating,
                 device_message_receiver, device_send_waiting, produced, futures, lock,
                 awaiter, log, unasked, next_fut, n_calls>>

\* a faulty Disconnect arm of run: a closed stream is taken for a fault
StreamDisconnectPanics(cause) == Exit("panic", "panic")

\* run, StreamReturn::Disconnect: break, and client_event_loop returns Ok(())
StreamDisconnect(cause) == Exit("Ok", cause)

\* run: connector_receiver.next() gives None
LoopConnectorClosed ==
  /\ pc = "run"
  /\ connector_pending = 0 /\ connector_closed
  /\ StreamDisconnect("connector_closed")
  /\ taken' = None /\ emitted' = <<>> /\ called' = <<>>
  /\ UNCHANGED <<client_pending, client_closed, connector_pending, connector_closed,
                 connector_repeating, device_message_receiver, device_send_waiting,
                 produced, devices, device_event_senders, chan_count, futures, lock,
                 awaiter, log, unasked, next_fut, device_events_sent, n_calls, live>>

\* run: client_receiver.next() gives None
LoopClientClosed ==
  /\ pc = "run"
  /\ client_pending = 0 /\ client_closed
  /\ StreamDisconnect("client_closed")
  /\ taken' = None /\ emitted' = <<>> /\ called' = <<>>
  /\ UNCHANGED <<client_pending, client_closed, connector_pending, connector_closed,
                 connector_repeating, device_message_receiver, device_send_waiting,
                 produced, devices, device_event_senders, chan_count, futures, lock,
                 awaiter, log, unasked, next_fut, device_events_sent, n_calls, live>>

\* a faulty loop: the Message arm is also taken after run has ended
LoopMessageAfterEnd ==
  /\ pc \in {"run", "exited"}
  /\ client_pending > 0
  /\ client_pending' = client_pending - 1
  /\ \E msg \in {m \in ClientMessageKinds : m.type = "Message"} :
       /\ taken' = Took("client", msg, next_fut)
       /\ called' = <<SendCall(msg.msg, next_fut)>>
  /\ next_fut' = next_fut + 1
  /\ n_calls' = Counted("send")
  /\ emitted' = <<>>
  /\ UNCHANGED <<pc, result, exit_cause, client_closed, connector_pending, connector_closed,
                 connector_repeating, device_message_receiver, device_send_waiting,
                 produced, devices, device_event_senders, chan_count, futures, lock,
                 awaiter, log, unasked, device_events_sent, live>>

\* parse_client_message, Message arm: connector.send(&msg_fut.0, &msg_fut.1)
LoopMessage ==
  /\ pc = "run"
  /\ client_pending > 0
  /\ client_pending' = client_pending - 1
  /\ \E msg \in {m \in ClientMessageKinds : m.type = "Message"} :
       /\ taken' = Took("client", msg, next_fut)
       /\ called' = <<SendCall(msg.msg, next_fut)>>
  /\ next_fut' = next_fut + 1
  /\ n_calls' = Counted("send")
  /\ emitted' = <<>>
  /\ UNCHANGED <<pc, result, exit_cause, client_closed, connector_pending, connector_closed,
                 connector_repeating, device_message_receiver, device_send_waiting,
                 produced, devices, device_event_senders, chan_count, futures, lock,
                 awaiter, log, unasked, device_events_sent, live>>

\* parse_client_message, Disconnect arm up to its await: the state is locked, then
\* connector.disconnect() is awaited with the guard alive
LoopDisconnect ==
  /\ pc = "run"
  /\ client_pending > 0
  /\ client_pending' = client_pending - 1
  /\ taken' = Took("client", [type |-> "Disconnect"], next_fut)
  /\ lock[next_fut] = "unlocked"
  /\ lock' = [lock EXCEPT ![next_fut] = "loop"]
  /\ next_fut' = next_fut + 1
  /\ pc' = "disconnect"
  /\ called' = <<Call("disconnect")>>
  /\ n_calls' = Counted("disconnect")
  /\ emitted' = <<>>
  /\ UNCHANGED <<result, exit_cause, client_closed, connector_pending, connector_closed,
                 connector_repeating, device_message_receiver, device_send_waiting,
                 produced, devices, device_event_senders, chan_count, futures, awaiter, log,
                 unasked, device_events_sent, live>>

\* a faulty Disconnect arm: the future gets Ok whatever connector.disconnect() returned
DisconnectReplyOk(outcome) == OkReply

\* the reply the Disconnect arm stores: what connector.disconnect() returned
DisconnectReply(outcome) == IF outcome = "Ok" THEN OkReply ELSE ErrReply("connector")

\* connector.disconnect() returns: set_reply with its result, the guard is dropped,
\* parse_client_message returns false and run breaks
DisconnectDone ==
  /\ pc = "disconnect"
  /\ \E outcome \in Outcomes :
       LET f == Unwrap(taken).fut
           reply == DisconnectReply(outcome)
           r == set_reply(futures[f], reply)
       IN  /\ AfterSetReply(f, reply, r)
           /\ called' = <<Returned("disconnect", outcome)>>
           /\ IF r.panicked THEN Exit("panic", "panic") ELSE Exit("Ok", "disconnect")
  /\ emitted' = <<>>
  /\ UNCHANGED <<client_pending, client_closed, connector_pending, connector_closed,
                 connector_repeating, device_message_receiver, device_send_waiting,
                 produced, devices, device_event_senders, chan_count, unasked, next_fut,
                 taken, device_events_sent, n_calls, live>>

\* parse_client_message, RequestDeviceList arm
LoopRequestDeviceList ==
  /\ pc = "run"
  /\ client_pending > 0
  /\ client_pending' = client_pending - 1
  /\ taken' = Took("client", [type |-> "RequestDeviceList"], next_fut)
  /\ \E order \in Orders(DOMAIN devices) :
       LET r == RequestedDevices(Reg, devices, order)
           reply == DevicesReply(r.list)
       IN  /\ SetReg(r.reg)
           /\ lock[next_fut] # "loop"
           /\ LoopSetReply(next_fut, reply)
           /\ IF LoopSetReplyPanics(next_fut, reply) THEN Exit("panic", "panic")
              ELSE UNCHANGED <<pc, result, exit_cause>>
  /\ next_fut' = next_fut + 1
  /\ called' = <<>>
  /\ UNCHANGED <<client_closed, connector_pending, connector_closed, connector_repeating,
                 device_message_receiver, device_send_waiting, produced, unasked, n_calls,
                 live>>

\* parse_client_message, HandleDeviceList arm
LoopHandleDeviceList ==
  /\ pc = "run"
  /\ client_pending > 0
  /\ client_pending' = client_pending - 1
  /\ \E msg \in {m \in ClientMessageKinds : m.type = "HandleDeviceList"} :
       /\ taken' = Took("client", msg, NoFut)
       /\ SetReg(HandledDeviceList(Reg, msg.devices))
       /\ live' = LiveAfter(live, msg)
  /\ called' = <<>>
  /\ UNCHANGED <<pc, result, exit_cause, client_closed, connector_pending, connector_closed,
                 connector_repeating, device_message_receiver, device_send_waiting,
                 produced, futures, lock, awaiter, log, unasked, next_fut, n_calls>>

\* parse_client_message, the catch-all arm: a Connect while running panics
LoopSecondConnect ==
  /\ pc = "run"
  /\ client_pending > 0
  /\ client_pending' = client_pending - 1
  /\ taken' = Took("client", [type |-> "Connect"], next_fut)
  /\ next_fut' = next_fut + 1
  /\ Exit("panic", "panic")
  /\ emitted' = <<>> /\ called' = <<>>
  /\ UNCHANGED <<client_closed, connector_pending, connector_closed, connector_repeating,
                 device_message_receiver, device_send_waiting, produced, devices,
                 device_event_senders, chan_count, futures, lock, awaiter, log, unasked,
                 device_events_sent, n_calls, live>>

\* a faulty receive: the entry enqueued last is handed out first
ReceiverNextNewest(q) == [item |-> q[Len(q)], rest |-> SubSeq(q, 1, Len(q) - 1)]

\* device_receiver.next() on a non-empty channel: the oldest entry, taken out
ReceiverNext(q) == [item |-> Head(q), rest |-> Tail(q)]

\* run: the device channel wins the race: connector.send(&msg_fut.0, &msg_fut.1)
LoopDeviceMessage ==
  /\ pc = "run"
  /\ device_message_receiver # <<>>
  /\ LET msg_fut == ReceiverNext(device_message_receiver).item
     IN  /\ taken' = Took("device", msg_fut[1], msg_fut[2])
         /\ called' = <<SendCall(msg_fut[1], msg_fut[2])>>
  /\ device_message_receiver' = ReceiverNext(device_message_receiver).rest
  /\ n_calls' = Counted("send")
  /\ emitted' = <<>>
  /\ UNCHANGED <<pc, result, exit_cause, client_pending, client_closed, connector_pending,
                 connector_closed, connector_repeating, device_send_waiting, produced,
                 devices, device_event_senders, chan_count, futures, lock, awaiter, log,
                 unasked, next_fut, device_events_sent, live>>

Next ==
  \/ ClientSubmit
  \/ ClientDrop
  \/ ConnectorNotify
  \/ ConnectorClose
  \/ DeviceSubmit
  \/ WaitClientDropped
  \/ WaitConnect
  \/ WaitNotConnect
  \/ ConnectDone
  \/ LoopConnectorMessage
  \/ LoopConnectorClosed
  \/ LoopClientClosed
  \/ LoopMessage
  \/ LoopDisconnect
  \/ DisconnectDone
  \/ LoopRequestDeviceList
  \/ LoopHandleDeviceList
  \/ LoopSecondConnect
  \/ LoopDeviceMessage

Spec == Init /\ [][Next]_vars

\* The connector's connect() and disconnect() futures complete.
FairSpec == Spec /\ WF_vars(ConnectDone) /\ WF_vars(DisconnectDone)

\* run: the connector stream wins the race with one of the repeated empty lists
LoopConnectorRepeated ==
  /\ pc = "run"
  /\ connector_repeating > 0
  /\ connector_repeating' = connector_repeating - 1
  /\ LET msg == [type |-> "DeviceList", devices |-> <<>>]
         r == parse_connector_message(Reg, msg)
     IN  /\ taken' = Took("connector", msg, NoFut)
         /\ SetReg(r.reg)
         /\ live' = LiveAfter(live, msg)
  /\ called' = <<>>
  /\ UNCHANGED <<pc, result, exit_cause, client_pending, client_closed, connector_pending,
                 connector_closed, device_message_receiver, device_send_waiting, produced,
                 futures, lock, awaiter, log, unasked, next_fut, n_calls>>

\* what the three futures of one iteration of run find: the next() of a channel is
\* ready when an item waits or when the channel is closed
ConnectorReady == connector_pending > 0 \/ connector_repeating > 0 \/ connector_closed
ClientReady == client_pending > 0 \/ client_closed

\* event_future.race(client_future).race(device_future): race polls its left future
\* first and its right future only when the left is pending, so of the futures that
\* are ready the leftmost gives the result
Race ==
  \/ LoopConnectorMessage \/ LoopConnectorRepeated \/ LoopConnectorClosed
  \/ ~ConnectorReady /\ (\/ LoopMessage \/ LoopDisconnect \/ LoopRequestDeviceList
                         \/ LoopHandleDeviceList \/ LoopSecondConnect \/ LoopClientClosed)
  \/ ~ConnectorReady /\ ~ClientReady /\ LoopDeviceMessage

\* The loop with the race as async-std resolves it, fed by a connector that may
\* repeat its notifications without end; the loop task is scheduled whenever it can
\* take a step.
RaceNext ==
  \/ ClientSubmit
  \/ ClientDrop
  \/ ConnectorNotify
  \/ ConnectorRepeat
  \/ ConnectorClose
  \/ DeviceSubmit
  \/ WaitClientDropped
  \/ WaitConnect
  \/ WaitNotConnect
  \/ ConnectDone
  \/ DisconnectDone
  \/ Race

RaceSpec ==
  /\ Init /\ [][RaceNext]_vars
  /\ WF_vars(Race) /\ WF_vars(WaitConnect) /\ WF_vars(WaitNotConnect)
  /\ WF_vars(ConnectDone) /\ WF_vars(DisconnectDone)

\* The device-command channel at work: the loop connects, the connector announces
\* devices, their handles send, suspending on the full channel, and the loop forwards.
QueueNext ==
  \/ ClientSubmit
  \/ WaitConnect
  \/ ConnectDone
  \/ ConnectorNotify
  \/ LoopConnectorMessage
  \/ DeviceSubmit
  \/ DeviceSendSuspend
  \/ DeviceSendResume
  \/ LoopDeviceMessage

QueueSpec == Init /\ [][QueueNext]_vars

(* ===================== claims about the reply future =================== *)
\* the history of future f, read from its log
IsSet(e) == e.op = "set_reply"
IsStore(e) == e.op = "set_reply" /\ ~e.panicked
IsPoll(e) == e.op = "poll"
IsReady(e) == e.op = "poll" /\ e.ret.poll = "Ready"
Prefix(s, n) == SubSeq(s, 1, n)
\* the replies stored, in order
Written(l) == [k \in 1..Len(SelectSeq(l, IsStore)) |-> SelectSeq(l, IsStore)[k].reply]
\* the replies polls returned, in order
Yielded(l) == [k \in 1..Len(SelectSeq(l, IsReady)) |-> SelectSeq(l, IsReady)[k].ret.value]
\* the step appends a store, a poll to the log of f
StepStores(f) == Len(log'[f]) = Len(log[f]) + 1 /\ IsStore(log'[f][Len(log'[f])])
StepPolls(f) == Len(log'[f]) = Len(log[f]) + 1 /\ IsPoll(log'[f][Len(log'[f])])
LastRet(f) == log'[f][Len(log'[f])].ret

\* C1 (as claimed): on one future state, every set_reply call after the first
\* set_reply call panics, also when a poll has taken the first reply meanwhile,
\* so a reply is stored at most once.
C1_LaterSetReplyFaults ==
  \A f \in FutIds : \A k \in 1..Len(log[f]) :
    (IsSet(log[f][k]) /\ \E j \in 1..(k - 1) : IsSet(log[f][j])) => log[f][k].panicked

\* C2 (as claimed): every poll that begins after the first set_reply(v) returns
\* Ready(v), never Pending and never another value.
C2_EveryPollAfterResolutionReady ==
  \A f \in FutIds : \A k \in 1..Len(log[f]) :
    (IsPoll(log[f][k]) /\ log[f][k].ret # PoisonedPoll /\ Written(Prefix(log[f], k - 1)) # <<>>)
      => log[f][k].ret = Ready(Written(log[f])[1])

\* C2 (amended): a poll that begins while a stored reply v has not been taken yet
\* (the first poll after set_reply(v)) returns Ready(v) at once and takes v out of
\* the slot; a poll that begins when every stored reply has been taken returns
\* Pending; a poll faults only on a lock that a panicking set_reply poisoned.
C2_FirstPollAfterResolutionReady ==
  \A f \in FutIds : \A k \in 1..Len(log[f]) :
    IsPoll(log[f][k]) =>
      LET before == Prefix(log[f], k - 1)
          w == Written(before)
          y == Yielded(before)
      IN  IF log[f][k].ret = PoisonedPoll
          THEN \E j \in 1..(k - 1) : IsSet(before[j]) /\ before[j].panicked
          ELSE IF Len(y) < Len(w)
               THEN /\ log[f][k].ret = Ready(w[Len(w)])
                    /\ Len(w) = Len(y) + 1
               ELSE log[f][k].ret = Pending

\* C2 witness: a reply was stored, the next poll returned it, a later poll is Pending.
C2_Witness ==
  \E v \in Vals :
    /\ Len(log[TheFut]) = 3
    /\ log[TheFut][1] = [op |-> "set_reply", reply |-> v, panicked |-> FALSE]
    /\ log[TheFut][2] = PollEntry(Ready(v))
    /\ log[TheFut][3] = PollEntry(Pending)

\* C3: no lost wake-up.  (a) No state has a reply stored while the awaiting task is
\* still suspended.  (b) A set_reply that stores a reply while the task is suspended
\* wakes it.  (c) The woken task's next poll returns the stored reply, unless a
\* later, panicking set_reply poisoned the lock.  (d) The replies polls return are,
\* in order, replies that were stored: each is obtained once.  (e) A woken task does
\* not stay waiting: its poll runs.
C3_NeverSuspendedWithReply ==
  \A f \in FutIds : ~(awaiter[f] = "suspended" /\ futures[f].reply_msg # None)
C3_YieldedOnce ==
  \A f \in FutIds :
    /\ Len(Yielded(log[f])) <= Len(Written(log[f]))
    /\ Yielded(log[f]) = Prefix(Written(log[f]), Len(Yielded(log[f])))
C3_SetReplyWakes ==
  \A f \in FutIds :
    /\ (awaiter[f] = "suspended" /\ StepStores(f)) => awaiter'[f] = "woken"
    /\ (awaiter[f] = "woken" /\ StepPolls(f) /\ lock[f] # "poisoned")
         => /\ futures[f].reply_msg # None
            /\ LastRet(f) = Ready(Unwrap(futures[f].reply_msg))
            /\ awaiter'[f] = "running"
C3_NoLostWakeup ==
  /\ [](C3_NeverSuspendedWithReply /\ C3_YieldedOnce)
  /\ [][C3_SetReplyWakes]_vars
  /\ \A f \in {TheFut} : (awaiter[f] = "woken") ~> (awaiter[f] \in {"running", "panicked"})

\* C3 witness: the task polled first and suspended, set_reply(v) came from another
\* task, and the task's next poll returned v.
C3_Witness ==
  \E v \in Vals :
    /\ log[TheFut] = <<PollEntry(Pending),
                       [op |-> "set_reply", reply |-> v, panicked |-> FALSE],
                       PollEntry(Ready(v))>>
    /\ awaiter[TheFut] = "running"

(* ======================== claims about the loop ========================= *)
\* the session state of the specification
AwaitingConnector == pc \in {"wait_for_connector", "connect"}
Connected == pc \in {"run", "disconnect"}
Terminated == pc = "exited"
\* the loop was Connected at some time
EverConnected == Connected \/ exit_cause \in {"disconnect", "client_closed", "connector_closed", "panic"}
\* the step takes an item from the client queue, from the connector stream
TakesClient == client_pending' = client_pending - 1
TakesConnector == connector_pending' = connector_pending - 1
TakenMsg == Unwrap(taken).msg
TakenFut == Unwrap(taken).fut
TookFrom(source, type) ==
  taken # None /\ Unwrap(taken).source = source /\ TakenMsg.type = type
NoCalls == [op \in ConnectorOps |-> 0]
OnlyConnectCalled == [op \in ConnectorOps |-> IF op = "connect" THEN 1 ELSE 0]
EmptyRegistry ==
  devices = EmptyMap /\ device_event_senders = EmptyMap /\ chan_count = [i \in Indices |-> 0]
\* what the loop has processed: the item taken last, the connector calls, the
\* events sent, the registry, the futures
Processed == <<taken, called, n_calls, emitted, devices, device_event_senders, chan_count,
               log, futures, live>>
\* once the loop task has ended, its steps are over
TerminatedStays ==
  Terminated => /\ UNCHANGED <<pc, result, exit_cause>>
                /\ UNCHANGED Processed
\* the one successful set_reply(reply) and nothing else was called on future f
ResolvedOnceWith(l, reply) == l = <<[op |-> "set_reply", reply |-> reply, panicked |-> FALSE]>>

\* C4: Connected is entered only by the step on which connector.connect() returns
\* Ok for the Connect taken first; that step stores Ok in the Connect's future, and
\* leaves an empty device map, an empty subscriber map and an empty, open device
\* queue; as long as the session lives the future has been resolved exactly once;
\* and a connect() that returns Ok always enters Connected.
C4_EntersConnected ==
  /\ (~Connected /\ Connected')
       => /\ AwaitingConnector /\ pc = "connect" /\ pc' = "run"
          /\ TookFrom("client", "Connect") /\ TakenFut = 1
          /\ called' = <<Returned("connect", "Ok")>>
          /\ log[1] = <<>> /\ ResolvedOnceWith(log'[1], OkReply)
          /\ futures'[1].reply_msg = Some(OkReply)
          /\ devices' = EmptyMap /\ device_event_senders' = EmptyMap
          /\ device_message_receiver' = <<>>
  /\ (pc = "connect" /\ called' = <<Returned("connect", "Ok")>>) => pc' = "run"
C4_ResolvedOnce ==
  EverConnected => ResolvedOnceWith(log[1], OkReply) /\ n_calls["connect"] = 1
C4_ConnectSuccess == []C4_ResolvedOnce /\ [][C4_EntersConnected]_vars

\* C4 witness: the loop has just entered Connected.
C4_Witness ==
  /\ pc = "run" /\ TookFrom("client", "Connect")
  /\ called = <<Returned("connect", "Ok")>>
  /\ futures[1].reply_msg = Some(OkReply)

\* C5: when connector.connect() returns Err for the Connect taken first, that step
\* stores an error in the Connect's future (its only resolution), the loop ends
\* with Err straight from AwaitingConnector, and nothing is processed afterwards:
\* the Connect stays the last item taken, connect stays the only connector call,
\* no event is sent, no other future is touched and the maps stay empty, whatever
\* is still queued.
C5_FailedStep ==
  (pc = "connect" /\ called' = <<Returned("connect", "Err")>>)
    => /\ pc' = "exited" /\ result' = "Err" /\ exit_cause' = "connect_failed"
       /\ log[1] = <<>>
       /\ \E m \in {"Cannot connect to server"} : ResolvedOnceWith(log'[1], ErrReply(m))
C5_AfterFailure ==
  exit_cause = "connect_failed"
    => /\ Terminated /\ result = "Err"
       /\ TookFrom("client", "Connect") /\ TakenFut = 1
       /\ Len(log[1]) = 1 /\ IsStore(log[1][1]) /\ log[1][1].reply.kind = "Err"
       /\ \A f \in FutIds \ {1} : log[f] = <<>>
       /\ n_calls = OnlyConnectCalled
       /\ emitted = <<>> /\ EmptyRegistry /\ device_message_receiver = <<>>
C5_ConnectFailure ==
  /\ []C5_AfterFailure
  /\ [][C5_FailedStep /\ TerminatedStays]_vars

\* C5 witness: the loop ended on a failed connect with a command still queued.
C5_Witness ==
  exit_cause = "connect_failed" /\ client_pending > 0 /\ futures[1].reply_msg # None

\* C6: when the first command taken in AwaitingConnector is not Connect, the loop
\* ends with Err on that step: it never is Connected, no connector operation is
\* invoked, no future is resolved, no event is sent and the maps stay empty.
C6_NotConnectStep ==
  (pc = "wait_for_connector" /\ TakesClient /\ Unwrap(taken').msg.type # "Connect")
    => pc' = "exited" /\ result' = "Err" /\ exit_cause' = "not_connect"
C6_AfterNotConnect ==
  exit_cause = "not_connect"
    => /\ Terminated /\ result = "Err"
       /\ taken # None /\ TakenMsg.type # "Connect"
       /\ n_calls = NoCalls /\ called = <<>>
       /\ \A f \in FutIds : log[f] = <<>> /\ futures[f] = DefaultFutureState
       /\ emitted = <<>> /\ EmptyRegistry /\ device_message_receiver = <<>>
C6_NotConnectFirst ==
  /\ []C6_AfterNotConnect
  /\ [][C6_NotConnectStep /\ (exit_cause = "not_connect" => TerminatedStays)]_vars

\* C6 witness: a Message command was taken first and the loop ended.
C6_Witness ==
  exit_cause = "not_connect" /\ TakenMsg.type = "Message"

\* C7: the reply a RequestDeviceList command gets holds one handle for each index
\* registered (by DeviceAdded, DeviceList or HandleDeviceList) and not removed since,
\* and no other handle: as many handles as such indices, however often an index was
\* registered; each handle carries the registry's metadata of its index; the
\* command's future is resolved by that one set_reply.
C7_ListIsLiveRegistry ==
  (TookFrom("client", "RequestDeviceList") /\ exit_cause # "not_connect")
    => /\ Len(log[TakenFut]) = 1
       /\ IsStore(log[TakenFut][1])
       /\ log[TakenFut][1].reply.kind = "Devices"
       /\ LET list == log[TakenFut][1].reply.devices
          IN  /\ {list[k].info.device_index : k \in 1..Len(list)} = live
              /\ Len(list) = Cardinality(live)
              /\ \A k \in 1..Len(list) :
                   /\ list[k].info.device_index \in DOMAIN devices
                   /\ list[k].info = devices[list[k].info.device_index]

\* C7 witness: two indices were registered, one was removed, and the list requested
\* afterwards holds the handle of the other alone.
C7_Witness ==
  /\ TookFrom("client", "RequestDeviceList") /\ pc = "run"
  /\ \A i \in Indices : chan_count[i] > 0
  /\ Cardinality(live) = 1
  /\ Len(log[TakenFut]) = 1
  /\ Len(log[TakenFut][1].reply.devices) = 1

\* the entries of a device list carry pairwise distinct indices
Distinct(devs) ==
  \A i, j \in 1..Len(devs) : devs[i].device_index = devs[j].device_index => i = j

\* C8: the step that processes a DeviceList notification with N distinct indices
\* sends exactly N events, the k-th a DeviceAdded whose handle carries the k-th
\* entry's metadata, and leaves every one of the N indices a key of the registry,
\* mapped to its entry.
C8_DeviceListEmitsAll ==
  (TookFrom("connector", "DeviceList") /\ Distinct(TakenMsg.devices))
    => LET devs == TakenMsg.devices
       IN  /\ Len(emitted) = Len(devs)
           /\ \A k \in 1..Len(devs) :
                /\ emitted[k].event = "DeviceAdded"
                /\ emitted[k].device.info = devs[k]
                /\ devs[k].device_index \in DOMAIN devices
                /\ devices[devs[k].device_index] = devs[k]
                /\ devs[k].device_index \in DOMAIN device_event_senders
           /\ pc \in {"run", "disconnect"} \/ exit_cause # "panic"

\* C8 witness: a list of two distinct indices, one of them registered before, was
\* processed.
C8_Witness ==
  /\ TookFrom("connector", "DeviceList")
  /\ Len(TakenMsg.devices) = 2 /\ Distinct(TakenMsg.devices)
  /\ Len(emitted) = 2
  /\ \E i \in Indices : chan_count[i] = 2

\* C9: the step that takes a Disconnect in Connected invokes connector.disconnect(),
\* once; the loop's next step stores what it returned (Ok or the error) in the
\* command's future, by the only set_reply that future gets, and ends the loop with
\* Ok; disconnect is invoked at most once over a run; and once the connector's
\* disconnect() returns, the loop does end, for either outcome.
C9_DisconnectStep ==
  /\ (pc = "run" /\ TakesClient /\ Unwrap(taken').msg.type = "Disconnect")
       => /\ pc' = "disconnect"
          /\ called' = <<Call("disconnect")>>
          /\ n_calls' = [n_calls EXCEPT !["disconnect"] = @ + 1]
          /\ log'[Unwrap(taken').fut] = <<>>
  /\ (pc = "disconnect" /\ <<pc, Processed>>' # <<pc, Processed>>)
       => /\ pc' = "exited" /\ result' = "Ok" /\ exit_cause' = "disconnect"
          /\ UNCHANGED <<taken, n_calls, emitted, devices, device_event_senders>>
          /\ \E outcome \in Outcomes :
               /\ called' = <<Returned("disconnect", outcome)>>
               /\ ResolvedOnceWith(log'[TakenFut],
                                   IF outcome = "Ok" THEN OkReply ELSE ErrReply("connector"))
C9_DisconnectedOnce ==
  /\ n_calls["disconnect"] <= 1
  /\ pc = "disconnect"
       => TookFrom("client", "Disconnect") /\ log[TakenFut] = <<>> /\ n_calls["disconnect"] = 1
  /\ exit_cause = "disconnect"
       => /\ Terminated /\ TookFrom("client", "Disconnect")
          /\ n_calls["disconnect"] = 1
          /\ Len(log[TakenFut]) = 1 /\ IsStore(log[TakenFut][1])
C9_DisconnectTerminates ==
  /\ []C9_DisconnectedOnce
  /\ [][C9_DisconnectStep /\ (exit_cause = "disconnect" => TerminatedStays)]_vars
  /\ (pc = "disconnect") ~> (Terminated /\ exit_cause = "disconnect")

\* C9 witness: connector.disconnect() failed, the error is in the command's future
\* and the loop has ended.
C9_Witness ==
  /\ exit_cause = "disconnect" /\ result = "Ok"
  /\ called = <<Returned("disconnect", "Err")>>
  /\ futures[TakenFut].reply_msg = Some(ErrReply("connector"))

\* C10: the step that processes a DeviceRemoved notification whose index is not a
\* key of the registry ends the loop task with a panic: it sends no event, leaves
\* both maps as they were, and no step of the loop follows it; a DeviceRemoved
\* event is sent only by a removal that did not panic, for the index removed.
C10_UnknownRemovalStep ==
  (/\ pc = "run" /\ TakesConnector
   /\ Unwrap(taken').msg.type = "DeviceRemoved"
   /\ Unwrap(taken').msg.device_index \notin DOMAIN devices)
    => /\ pc' = "exited" /\ result' = "panic" /\ exit_cause' = "panic"
       /\ emitted' = <<>>
       /\ UNCHANGED <<devices, device_event_senders, chan_count, n_calls, log, futures>>
C10_AfterUnknownRemoval ==
  TookFrom("connector", "DeviceRemoved")
    => \/ Terminated /\ result = "panic" /\ emitted = <<>>
       \/ /\ result # "panic"
          /\ Len(emitted) = 1
          /\ emitted[1].event = "DeviceRemoved"
          /\ emitted[1].info.device_index = TakenMsg.device_index
C10_UnknownRemovalFaults ==
  /\ []C10_AfterUnknownRemoval
  /\ [][C10_UnknownRemovalStep /\ (exit_cause = "panic" => TerminatedStays)]_vars

\* C10 witness: with one index registered, a removal of the other ended the loop.
C10_Witness ==
  /\ TookFrom("connector", "DeviceRemoved")
  /\ result = "panic"
  /\ devices # EmptyMap
  /\ TakenMsg.device_index \notin DOMAIN devices

\* C11: a step that takes the loop from Connected to Terminated is one of: the end
\* of a processed Disconnect, the client queue found closed and empty, the connector
\* stream found closed and empty (client_event_loop returns Ok for these three), or
\* a panic while an item taken from a queue is processed; whenever the loop waits in run with the client queue, or the connector
\* stream, closed and empty, the step that ends it normally can be taken; and a
\* loop that was Connected and has ended has ended in one of these four ways.
C11_LeavesConnected ==
  (Connected /\ Terminated')
    => \/ /\ result' = "Ok" /\ exit_cause' = "disconnect"
          /\ pc = "disconnect" /\ TookFrom("client", "Disconnect")
       \/ /\ result' = "Ok" /\ exit_cause' = "client_closed"
          /\ pc = "run" /\ client_closed /\ client_pending = 0
       \/ /\ result' = "Ok" /\ exit_cause' = "connector_closed"
          /\ pc = "run" /\ connector_closed /\ connector_pending = 0
       \/ result' = "panic" /\ exit_cause' = "panic" /\ taken' # None
C11_TriggersEnd ==
  /\ (pc = "run" /\ client_closed /\ client_pending = 0) => ENABLED LoopClientClosed
  /\ (pc = "run" /\ connector_closed /\ connector_pending = 0) => ENABLED LoopConnectorClosed
  /\ pc = "disconnect" => ENABLED DisconnectDone
  /\ (Terminated /\ EverConnected)
       => \/ result = "Ok" /\ exit_cause \in {"disconnect", "client_closed", "connector_closed"}
          \/ result = "panic" /\ exit_cause = "panic"
C11_NormalTermination == []C11_TriggersEnd /\ [][C11_LeavesConnected]_vars

\* C11 witness: the loop ended normally on the closed client queue, with a
\* notification still waiting on the connector stream.
C11_Witness ==
  /\ Terminated /\ result = "Ok" /\ exit_cause = "client_closed"
  /\ connector_pending > 0 /\ devices # EmptyMap

\* C12: the device-command channel never holds more than DeviceQueueCap pairs.  A
\* step changes it only by appending one pair while there is room (a new send, or
\* a suspended send completing) or by the loop taking its oldest pair and handing
\* that pair, message and future state, to connector.send.  A send that finds the
\* channel full is kept suspended, unchanged, until the step that appends it: it
\* is never discarded, and it can complete as soon as the channel has room.
C12_ChannelStep ==
  LET q == device_message_receiver
      new == {<<SingleMotorVibrateCmd(i), next_fut>> : i \in Indices}
  IN  /\ q' # q
           => \/ /\ Len(q) < DeviceQueueCap
                 /\ \E e \in new : q' = Append(q, e) /\ next_fut' = next_fut + 1
                 /\ UNCHANGED device_send_waiting
              \/ /\ Len(q) < DeviceQueueCap
                 /\ \E e \in device_send_waiting :
                      q' = Append(q, e) /\ device_send_waiting' = device_send_waiting \ {e}
              \/ /\ q # <<>> /\ q' = Tail(q)
                 /\ taken' = Took("device", Head(q)[1], Head(q)[2])
                 /\ called' = <<SendCall(Head(q)[1], Head(q)[2])>>
                 /\ UNCHANGED device_send_waiting
      /\ device_send_waiting' # device_send_waiting
           => \/ /\ Len(q) = DeviceQueueCap /\ q' = q
                 /\ \E e \in new : device_send_waiting' = device_send_waiting \cup {e}
              \/ \E e \in device_send_waiting :
                   q' = Append(q, e) /\ device_send_waiting' = device_send_waiting \ {e}
C12_WithinCapacity ==
  /\ Len(device_message_receiver) <= DeviceQueueCap
  /\ \A e \in device_send_waiting :
       \A k \in 1..Len(device_message_receiver) : device_message_receiver[k] # e
  /\ (SessionCreated /\ device_send_waiting # {}
        /\ Len(device_message_receiver) < DeviceQueueCap) => ENABLED DeviceSendResume
C12_Backpressure == []C12_WithinCapacity /\ [][C12_ChannelStep]_vars

\* C12 witness: the channel is full and a further send is suspended on it.
C12_Witness ==
  /\ Len(device_message_receiver) = DeviceQueueCap
  /\ device_send_waiting # {}
  /\ pc = "run"

\* C13 (as claimed): while the loop runs, no source is starved: commands waiting in
\* the client queue, pairs waiting in the device-command channel and notifications
\* waiting on the connector stream (of which finitely many are sent, next to the
\* repeated empty lists) are all taken in the end, or the loop leaves run, whatever
\* the traffic on the other sources.
C13_NoSourceStarved ==
  /\ (pc = "run" /\ client_pending > 0) ~> (client_pending = 0 \/ pc # "run")
  /\ (pc = "run" /\ device_message_receiver # <<>>)
       ~> (device_message_receiver = <<>> \/ pc # "run")
  /\ (pc = "run" /\ connector_pending > 0) ~> (connector_pending = 0 \/ pc # "run")

\* C14: in every state between two steps of the loop, each index that has senders
\* in device_event_senders has an entry in devices (and each index with an entry has
\* at least one sender); after a DeviceRemoved notification is processed, its index
\* is a key of neither map.
C14_SubscribersHaveInfo ==
  /\ DOMAIN device_event_senders \subseteq DOMAIN devices
  /\ \A i \in DOMAIN devices :
       i \in DOMAIN device_event_senders /\ device_event_senders[i] # <<>>
  /\ TookFrom("connector", "DeviceRemoved")
       => /\ TakenMsg.device_index \notin DOMAIN devices
          /\ TakenMsg.device_index \notin DOMAIN device_event_senders

\* C14 witness: of two registered indices one has been removed, from both maps, and
\* the other is still a key of both.
C14_Witness ==
  /\ TookFrom("connector", "DeviceRemoved") /\ pc = "run"
  /\ emitted # <<>>
  /\ DOMAIN devices # {}
  /\ DOMAIN device_event_senders = DOMAIN devices

\* ButtplugClientDeviceEvent::DeviceDisconnect, as sent on a per-device channel
DeviceDisconnectOn(chan) == <<chan, [event |-> "DeviceDisconnect"]>>

\* C15 (as claimed): the step that processes a DeviceRemoved notification for an
\* index with k >= 1 senders in device_event_senders sends a DeviceDisconnect on
\* each of the k channels, and sends the client exactly one DeviceRemoved event
\* with the info the registry held for the index.
C15_RemovalStep ==
  (/\ pc = "run" /\ TakesConnector
   /\ Unwrap(taken').msg.type = "DeviceRemoved"
   /\ Unwrap(taken').msg.device_index \in DOMAIN device_event_senders)
    => LET i == Unwrap(taken').msg.device_index
           senders == device_event_senders[i]
       IN  /\ emitted' = <<DeviceRemovedEvent(devices[i])>>
           /\ Len(device_events_sent') = Len(device_events_sent) + Len(senders)
           /\ \A k \in 1..Len(senders) :
                \E j \in 1..Len(device_events_sent') :
                  /\ j > Len(device_events_sent)
                  /\ device_events_sent'[j] = DeviceDisconnectOn(senders[k])
C15_RemovalFansOut == [][C15_RemovalStep]_vars

\* C16 (as claimed): the loop holds the lock of no future state in any state in
\* which it is suspended at an await (waiting for an item, or for connector.connect()
\* or connector.disconnect() to return): the lock is taken and released inside one
\* step, so a task polling the future never finds it held.
C16_NoLockAcrossAwait ==
  \A f \in FutIds : lock[f] # "loop"

\* C17: the step that takes a client Message command in Connected, and the step
\* that takes a pair from the device-command channel, make exactly one connector
\* call, send, with the command's payload and the command's own future state; they
\* touch no future, leave the registry and the subscriber map as they were, send no
\* event and keep the loop running.  For a pair from the device channel this is so
\* whether or not the payload's device index is a key of the registry.
C17_Forwarded(payload, f) ==
  /\ called' = <<SendCall(payload, f)>>
  /\ n_calls' = [n_calls EXCEPT !["send"] = @ + 1]
  /\ emitted' = <<>>
  /\ UNCHANGED <<devices, device_event_senders, chan_count, device_events_sent>>
  /\ UNCHANGED <<futures, lock, log>>
  /\ pc' = "run"
C17_ForwardStep ==
  /\ (pc = "run" /\ TakesClient /\ Unwrap(taken').msg.type = "Message")
       => C17_Forwarded(Unwrap(taken').msg.msg, Unwrap(taken').fut)
  /\ (pc = "run" /\ Len(device_message_receiver') = Len(device_message_receiver) - 1)
       => /\ taken' = Took("device", Head(device_message_receiver)[1],
                                     Head(device_message_receiver)[2])
          /\ C17_Forwarded(Head(device_message_receiver)[1], Head(device_message_receiver)[2])
C17_Unresolved ==
  (taken # None /\ exit_cause # "not_connect"
     /\ (Unwrap(taken).source = "device" \/ TookFrom("client", "Message")))
    => /\ log[TakenFut] = <<>> /\ futures[TakenFut] = DefaultFutureState
       /\ Len(called) = 1 /\ called[1].op = "send" /\ called[1].state = TakenFut
C17_ForwardsOnce == []C17_Unresolved /\ [][C17_ForwardStep]_vars

\* C17 witness: a device command was forwarded after its device had been removed
\* from the registry.
C17_Witness ==
  /\ taken # None /\ Unwrap(taken).source = "device"
  /\ TakenMsg.device_index \notin DOMAIN devices
  /\ called = <<SendCall(TakenMsg, TakenFut)>>
  /\ pc = "run"

\* C18: in every Connected state and for every bulk list L, the HandleDeviceList
\* arm and the DeviceList arm of the connector compute the same registry, the same
\* subscriber map and the same sequence of DeviceAdded events; and the step that
\* takes either of the two leaves exactly that outcome and keeps the loop running.
C18_SameOutcome ==
  Connected => \A L \in DeviceLists : HandledDeviceList(Reg, L) = ListedDevices(Reg, L)
C18_ListStep ==
  (pc = "run" /\ (TakesClient \/ TakesConnector)
     /\ Unwrap(taken').msg.type \in {"DeviceList", "HandleDeviceList"})
    => LET r == ListedDevices(Reg, Unwrap(taken').msg.devices)
       IN  /\ devices' = r.devices
           /\ device_event_senders' = r.device_event_senders
           /\ chan_count' = r.chan_count
           /\ emitted' = r.events
           /\ pc' = "run"
C18_ListsAgree == []C18_SameOutcome /\ [][C18_ListStep]_vars

\* C18 witness: a non-empty HandleDeviceList was processed, one of its indices
\* was minted for at least the second time, and the loop runs on.
C18_Witness ==
  /\ TookFrom("client", "HandleDeviceList")
  /\ Len(emitted) = Len(TakenMsg.devices)
  /\ \E k \in 1..Len(TakenMsg.devices) : chan_count[TakenMsg.devices[k].device_index] >= 2
  /\ pc = "run"

\* C19: the loop is Terminated exactly when one of its ends has been recorded
\* (Disconnect, a closed client queue, a closed connector stream, a failed or a
\* missing connect, a fault); from a Terminated state every step leaves the loop
\* Terminated with the same result, takes nothing from the client queue, the
\* connector stream or the device channel, makes no connector call, leaves the
\* registry and the subscriber map alone, sends no event and touches no future: what
\* was queued at the end stays queued.
C19_Reached ==
  /\ Terminated <=> exit_cause # "none"
  /\ Terminated <=> result # "none"
C19_Absorbing ==
  Terminated => Terminated' /\ UNCHANGED <<result, exit_cause>>
C19_Inert ==
  Terminated => /\ UNCHANGED <<client_pending, connector_pending, device_message_receiver>>
                /\ UNCHANGED <<taken, called, n_calls>>
                /\ UNCHANGED <<devices, device_event_senders, chan_count>>
                /\ UNCHANGED <<emitted, device_events_sent>>
                /\ UNCHANGED <<futures, lock, log>>
C19_TerminatedInert == []C19_Reached /\ [][C19_Absorbing /\ C19_Inert]_vars

\* C19 witness: the loop ended on a Disconnect while two more client commands were
\* still queued.
C19_Witness ==
  /\ Terminated /\ exit_cause = "disconnect"
  /\ client_pending = 2

\* the number of handles the handler of msg mints for index i
MintCount(msg, i) ==
  CASE msg.type = "DeviceAdded" -> IF msg.device_index = i THEN 1 ELSE 0
    [] msg.type \in {"DeviceList", "HandleDeviceList"} ->
         Cardinality({k \in 1..Len(msg.devices) : msg.devices[k].device_index = i})
    [] msg.type = "RequestDeviceList" -> IF i \in DOMAIN devices THEN 1 ELSE 0
    [] OTHER -> 0
\* the subscriber list of index i in the map m
SendersOf(m, i) == IF i \in DOMAIN m THEN m[i] ELSE <<>>

\* C20: the step that handles a DeviceAdded, a DeviceList, a HandleDeviceList or a
\* RequestDeviceList leaves, for every index, the old subscriber list followed by
\* one new channel per handle minted for that index; the new channels are distinct
\* and were never used before.  The RequestDeviceList step moreover leaves the
\* device-info map as it was, sends no client event, stores one Devices reply in
\* its future (one handle per registered index, each bound to the channel appended
\* for it) and keeps the loop running.
C20_Appended(i, k) ==
  LET old == SendersOf(device_event_senders, i)
      new == SendersOf(device_event_senders', i)
  IN  /\ Len(new) = Len(old) + k
      /\ Prefix(new, Len(old)) = old
      /\ \A j \in Len(old) + 1..Len(new) :
           /\ new[j][1] = i /\ new[j][2] > chan_count[i]
           /\ \A h \in Len(old) + 1..Len(new) : new[h] = new[j] => h = j
C20_MintStep ==
  (pc = "run" /\ (TakesClient \/ TakesConnector)
     /\ Unwrap(taken').msg.type \in {"DeviceAdded", "DeviceList", "HandleDeviceList",
                                     "RequestDeviceList"})
    => \A i \in Indices : C20_Appended(i, MintCount(Unwrap(taken').msg, i))
C20_RequestStep ==
  (pc = "run" /\ TakesClient /\ Unwrap(taken').msg.type = "RequestDeviceList")
    => /\ UNCHANGED devices
       /\ emitted' = <<>>
       /\ pc' = "run"
       /\ \E order \in Orders(DOMAIN devices) :
            ResolvedOnceWith(log'[Unwrap(taken').fut],
              DevicesReply([k \in 1..Len(order) |->
                [info |-> devices[order[k]],
                 event_receiver |-> device_event_senders'[order[k]]
                                      [Len(device_event_senders'[order[k]])]]]))
C20_MintAppendsOne == [][C20_MintStep /\ C20_RequestStep]_vars

\* C20 witness: RequestDeviceList was answered for two registered devices, each of
\* which had a subscriber before and has two now.
C20_Witness ==
  /\ TookFrom("client", "RequestDeviceList")
  /\ Cardinality(DOMAIN devices) = 2
  /\ \A i \in DOMAIN devices : Len(device_event_senders[i]) = 2
  /\ Len(log[TakenFut]) = 1
  /\ pc = "run"

\* C21: in Connected, the step that takes a Connect command from the client queue
\* and the step that takes a connector message that is neither DeviceAdded nor
\* DeviceList nor DeviceRemoved end the loop task in a fault: no connector call is
\* made, the registry and the subscriber map are as before, no event is sent and no
\* future is touched; connect is never called a second time, and after the fault
\* nothing more is processed.
C21_FaultStep ==
  (pc = "run"
     /\ \/ TakesClient /\ Unwrap(taken').msg.type = "Connect"
        \/ TakesConnector
             /\ Unwrap(taken').msg.type \notin {"DeviceAdded", "DeviceList", "DeviceRemoved"})
    => /\ pc' = "exited" /\ result' = "panic" /\ exit_cause' = "panic"
       /\ called' = <<>> /\ UNCHANGED n_calls
       /\ UNCHANGED <<devices, device_event_senders, chan_count, device_events_sent>>
       /\ emitted' = <<>>
       /\ UNCHANGED <<futures, lock, log>>
C21_ConnectOnce == n_calls["connect"] <= 1
C21_UnhandledKindsFault ==
  /\ []C21_ConnectOnce
  /\ [][C21_FaultStep /\ (exit_cause = "panic" => TerminatedStays)]_vars

\* C21 witness: a second Connect was taken while a device was registered, and the
\* loop task ended in a fault with connect called once.
C21_Witness ==
  /\ TookFrom("client", "Connect")
  /\ exit_cause = "panic" /\ Terminated
  /\ devices # EmptyMap
  /\ n_calls["connect"] = 1

====
